---- MODULE Spec2Model ----
(***************************************************************************)
(* Model of the session store (backend/session_manager.py), the paper      *)
(* cache (backend/src/utils/paper_cache.py) and the request handlers that  *)
(* drive them (backend/api_server.py, backend/src/agent.py).               *)
(*                                                                         *)
(* Conventions                                                             *)
(*   - a paper identifier is a sequence of one-character strings, so that  *)
(*     str.split('v') can be computed on it;                               *)
(*   - Python's None is the empty set for an optional object, the empty    *)
(*     sequence for an optional list and NoTime for an optional timestamp; *)
(*   - time is counted in whole hours (the unit of max_age_hours).         *)
(***************************************************************************)
EXTENDS Integers, Sequences, FiniteSets, TLC

VARIABLES
    now,          \* the wall clock, datetime.now()
    sessions,     \* SessionManager.sessions: session id -> Session
    nextSid,      \* the next fresh session id (uuid4 never repeats)
    cache,        \* PaperCache.cache: normalized id -> entry
    disk,         \* the contents of papers.json
    conceptMaps,  \* the file stems present in CONCEPT_MAPS_DIR
    repoDirs,     \* the repository paths present under REPO_CLONE_DIR
    chroma,       \* collection name -> number of stored documents
    workers,      \* request workers that run a handler step by step
    lock,         \* SessionManager.lock: the worker that holds it, 0 when free
    initOk,       \* history: the cache keys whose initialize returned success
    hits,         \* history: cache.get hits completed, per cache key
    last,         \* history: << id >> when the last request was an initialize
                  \* of id that returned success, << >> otherwise
    reply         \* history: the response to the last request, where recorded

vars == << now, sessions, nextSid, cache, disk, conceptMaps, repoDirs, chroma,
           workers, lock, initOk, hits, last, reply >>

----------------------------------------------------------------------------
(* Bounds of the model *)

MaxSessions == 2
MaxTime == 3
MaxResults == 1
MaxFiles == 1
MaxAccess == 2

(* Program constants *)

MaxAgeHours == 2
NoTime == 0 - 1
NoCount == 0 - 1

----------------------------------------------------------------------------
(* Paper identifiers *)

P1 == << "1" >>
P1v2 == << "1", "v", "2" >>
PaperIds == { P1, P1v2 }

\* The index of the first "v" of id, 0 when it has none.
FirstV(id) ==
    IF \E i \in 1..Len(id) : id[i] = "v"
    THEN CHOOSE i \in 1..Len(id) : id[i] = "v" /\ \A j \in 1..(i - 1) : id[j] # "v"
    ELSE 0

\* A cache keyed by the identifier as spelled
NormalizeWhole(id) == id

\* arxiv_id.split('v')[0] if 'v' in arxiv_id else arxiv_id
Normalize(id) == IF FirstV(id) = 0 THEN id ELSE SubSeq(id, 1, FirstV(id) - 1)

\* The queries a client sends: an identifier, or free text.
FreeText == << "t" >>
Queries == PaperIds \cup { FreeText }

Digits == { "1", "2" }

AllDigits(q, lo, hi) == lo <= hi /\ \A i \in lo..hi : q[i] \in Digits

\* The pattern without the optional version suffix
_is_arxiv_id_unversioned(q) == AllDigits(q, 1, Len(q))

\* _is_arxiv_id: digits, then optionally "v" and digits (the shape of
\* ^\d{4}\.\d{4,5}(v\d+)?$ with the field widths left out).
_is_arxiv_id(q) ==
    IF FirstV(q) = 0
    THEN AllDigits(q, 1, Len(q))
    ELSE AllDigits(q, 1, FirstV(q) - 1) /\ AllDigits(q, FirstV(q) + 1, Len(q))

\* The ranked lists PaperLookup.search may return: every list of distinct
\* identifiers of length at most MaxResults (the empty list is "nothing found").
ResultLists ==
    UNION { { r \in [1..n -> PaperIds] : \A i, j \in 1..n : i # j => r[i] # r[j] }
            : n \in 0..MaxResults }

\* The repository RepositoryLocator finds for a paper, and the path
\* clone_repository gives it: clone_dir / repo_name.
RepoUrl(id) == << "r" >> \o Normalize(id)
RepoPath(url) == << "d" >> \o url
NoPath == << >>

----------------------------------------------------------------------------
(* SessionManager *)

SidPool == 1..MaxSessions

\* Session.__init__ (created_at, original_query and search_mode are written
\* but never read by any handler and are left out).
Session ==
    [ last_accessed |-> now,
      rover_instance |-> {},
      is_initialized |-> FALSE,
      initialization_error |-> {},
      awaiting_paper_selection |-> FALSE,
      paper_options |-> << >> ]

\* Session.is_expired
is_expired(s) == now - s.last_accessed > MaxAgeHours

\* Session.touch
touch(s) == [s EXCEPT !.last_accessed = now]

Remove(f, k) == [x \in DOMAIN f \ { k } |-> f[x]]

\* SessionManager.create_session, for the fresh id sid
create_session(store, sid) == (sid :> Session) @@ store

\* SessionManager.get_session: the store after the call ...
get_session(store, sid) ==
    IF sid \notin DOMAIN store THEN store
    ELSE IF is_expired(store[sid]) THEN Remove(store, sid)
    ELSE [store EXCEPT ![sid] = touch(@)]

\* ... and whether it returned a session
get_session_found(store, sid) == sid \in DOMAIN store /\ ~is_expired(store[sid])

\* An update that sets the flags and drops the option list and the handle
update_session_flag_only(store, sid, kw) ==
    IF sid \in DOMAIN store
    THEN [store EXCEPT ![sid] =
            touch([f \in DOMAIN @ |->
                     IF f \in DOMAIN kw /\ f # "paper_options" /\ f # "rover_instance"
                     THEN kw[f] ELSE @[f]])]
    ELSE store

Reverse(q) == [i \in 1..Len(q) |-> q[Len(q) + 1 - i]]

\* An update that stores the option list in the opposite order
update_session_reversed(store, sid, kw) ==
    IF sid \in DOMAIN store
    THEN [store EXCEPT ![sid] =
            touch([f \in DOMAIN @ |->
                     IF f \in DOMAIN kw
                     THEN IF f = "paper_options" THEN Reverse(kw[f]) ELSE kw[f]
                     ELSE @[f]])]
    ELSE store

\* An update that can set the option list and never clears it
update_session_keep_options(store, sid, kw) ==
    IF sid \in DOMAIN store
    THEN [store EXCEPT ![sid] =
            touch([f \in DOMAIN @ |->
                     IF f \in DOMAIN kw /\ ~(f = "paper_options" /\ kw[f] = << >>)
                     THEN kw[f] ELSE @[f]])]
    ELSE store

\* SessionManager.update_session: setattr for each keyword the session has
update_session(store, sid, kw) ==
    IF sid \in DOMAIN store
    THEN [store EXCEPT ![sid] =
            touch([f \in DOMAIN @ |-> IF f \in DOMAIN kw THEN kw[f] ELSE @[f]])]
    ELSE store

\* SessionManager.delete_session
delete_session(store, sid) == IF sid \in DOMAIN store THEN Remove(store, sid) ELSE store

\* SessionManager.cleanup_expired
cleanup_expired(store) == [x \in { y \in DOMAIN store : ~is_expired(store[y]) } |-> store[x]]

\* SessionManager.get_session_count
get_session_count(store) == Cardinality(DOMAIN store)

----------------------------------------------------------------------------
(* PaperCache *)

\* The dict init_paper and handle_init_paper hand to PaperCache.set; it has
\* no access_count and no created_at key (0 and NoTime stand for "absent").
Entry(id, url, path, collection, files, mapfile) ==
    [ arxiv_id |-> id,
      title |-> Normalize(id),
      repo_url |-> url,
      repo_path |-> path,
      chroma_collection |-> collection,
      chroma_indexed_at |-> now,
      chroma_file_count |-> files,
      concept_map_path |-> mapfile,
      created_at |-> NoTime,
      last_accessed |-> NoTime,
      access_count |-> 0 ]

\* PaperCache.get: the cache after the call (the entry returned is the one
\* stored under the normalized id, after the update)
cache_get(c, id) ==
    IF Normalize(id) \in DOMAIN c
    THEN [c EXCEPT ![Normalize(id)].last_accessed = now,
                   ![Normalize(id)].access_count = @ + 1]
    ELSE c

\* PaperCache.exists
cache_exists(c, id) == Normalize(id) \in DOMAIN c

\* PaperCache.set
cache_set(c, id, data) ==
    LET stamped == [data EXCEPT !.last_accessed = now,
                                !.access_count = @ + 1,
                                !.created_at =
                                    IF Normalize(id) \notin DOMAIN c THEN now ELSE @]
    IN  (Normalize(id) :> stamped) @@ c

\* PaperCache.update
cache_update(c, id, updates) ==
    IF Normalize(id) \in DOMAIN c
    THEN [c EXCEPT ![Normalize(id)] =
            [[f \in DOMAIN @ |-> IF f \in DOMAIN updates THEN updates[f] ELSE @[f]]
                EXCEPT !.last_accessed = now]]
    ELSE c

\* PaperCache.update: the value the call returns.  Neither branch has a
\* return statement and none raises: the caller gets None on both.
cache_update_returns(c, id, updates) ==
    IF Normalize(id) \in DOMAIN c THEN "None" ELSE "None"

\* PaperCache.delete
cache_delete(c, id) == IF Normalize(id) \in DOMAIN c THEN Remove(c, Normalize(id)) ELSE c

\* PaperCache.clear_all
clear_all == << >>

\* PaperCache._save_cache: the file after the call; a failed write is logged
\* and swallowed, and leaves the file as it was
_save_cache(c, written) == IF written THEN c ELSE disk

\* PaperCache.save_concept_map / load_concept_map: the file is named by the
\* normalized id
save_concept_map(maps, id) == maps \cup { Normalize(id) }
load_concept_map(maps, id) == Normalize(id) \in maps

----------------------------------------------------------------------------
(* What a handler returns: the state it leaves behind and its response *)

\* The response: "success" and "error" of the JSON body, the collaborators
\* the call invoked, the identifier(s) it returned and the number it returned.
Response ==
    [ ok |-> FALSE, error |-> "", from_cache |-> FALSE, calls |-> {},
      ret |-> << >>, count |-> 0, had_docs |-> FALSE ]

Failure(msg) == [Response EXCEPT !.error = msg]

\* Every PaperCache mutation ends in _save_cache (taken to succeed when
\* written is TRUE); a call that leaves the cache alone writes nothing.
LeavesSaving(s, c, m, r, ch, resp, written) ==
    [ sessions |-> s, nextSid |-> nextSid, cache |-> c,
      disk |-> IF c = cache THEN disk ELSE _save_cache(c, written),
      conceptMaps |-> m, repoDirs |-> r, chroma |-> ch, resp |-> resp,
      inits |-> {} ]

Leaves(s, c, m, r, ch, resp) == LeavesSaving(s, c, m, r, ch, resp, TRUE)

\* A handler that touches the session store only.
LeavesSessions(s, resp) == Leaves(s, cache, conceptMaps, repoDirs, chroma, resp)

\* The step of the system that runs a handler to its end.
Step(result) ==
    /\ sessions' = result.sessions
    /\ nextSid' = result.nextSid
    /\ cache' = result.cache
    /\ disk' = result.disk
    /\ conceptMaps' = result.conceptMaps
    /\ repoDirs' = result.repoDirs
    /\ chroma' = result.chroma
    /\ initOk' = initOk \cup result.inits
    /\ UNCHANGED << now, workers, hits, lock >>

Do(result) == Step(result) /\ last' = << >> /\ UNCHANGED reply

\* The same step, remembering an initialize of id that succeeded.
DoInit(result, id) ==
    /\ Step(result)
    /\ last' = IF result.resp.ok THEN << id >> ELSE << >>
    /\ UNCHANGED reply

\* No response recorded
NoReply == [ op |-> "", sid |-> 0, ok |-> FALSE, error |-> "", ret |-> << >>, calls |-> {} ]

\* The same step, recording the response to the request op of session sid.
DoReply(result, op, sid) ==
    /\ Step(result)
    /\ last' = << >>
    /\ reply' = [ op |-> op, sid |-> sid, ok |-> result.resp.ok,
                  error |-> result.resp.error, ret |-> result.resp.ret,
                  calls |-> result.resp.calls ]

----------------------------------------------------------------------------
(* api_server.py *)

\* POST /api/session
create_session_route ==
    [LeavesSessions(create_session(sessions, nextSid),
                    [Response EXCEPT !.ok = TRUE, !.count = nextSid])
        EXCEPT !.nextSid = nextSid + 1]

\* GET /api/health
health ==
    LeavesSessions(sessions,
                   [Response EXCEPT !.ok = TRUE, !.count = get_session_count(sessions)])

\* POST /api/search-paper.  found: PaperFinder.get_paper_by_id found the
\* paper; options: the list PaperFinder.search_paper_options returned.
search_paper(sid, query, found, options) ==
    LET got == get_session(sessions, sid)
    IN  IF ~get_session_found(sessions, sid)
        THEN LeavesSessions(got, Failure("Invalid session"))
        ELSE IF _is_arxiv_id(query) /\ found
        THEN LeavesSessions(
                update_session(got, sid,
                    [awaiting_paper_selection |-> FALSE, paper_options |-> << >>]),
                [Response EXCEPT !.ok = TRUE, !.ret = << query >>, !.calls = { "lookup" }])
        ELSE LET called == IF _is_arxiv_id(query) THEN { "lookup", "search" }
                           ELSE { "search" }
             IN  IF options = << >>
                 THEN LeavesSessions(got,
                        [Failure("No papers found") EXCEPT !.calls = called])
                 ELSE LeavesSessions(
                        update_session(got, sid,
                            [awaiting_paper_selection |-> TRUE, paper_options |-> options]),
                        [Response EXCEPT !.ok = TRUE, !.ret = options, !.calls = called,
                                         !.count = Len(options)])

\* What a client sends as "selection"
Selections ==
    { [kind |-> k, idx |-> 0] : k \in { "cancel", "more", "junk" } }
        \cup { [kind |-> "index", idx |-> i] : i \in (0 - 1)..(MaxResults + 1) }

\* POST /api/select-paper
select_paper(sid, sel) ==
    LET got == get_session(sessions, sid)
    IN  IF ~get_session_found(sessions, sid)
        THEN LeavesSessions(got, Failure("Invalid session"))
        ELSE IF ~got[sid].awaiting_paper_selection \/ got[sid].paper_options = << >>
        THEN LeavesSessions(got, Failure("Not in paper selection mode"))
        ELSE IF sel.kind = "cancel"
        THEN LeavesSessions(
                update_session(got, sid,
                    [awaiting_paper_selection |-> FALSE, paper_options |-> << >>]),
                [Response EXCEPT !.ok = TRUE])
        ELSE IF sel.kind = "more"
        THEN LeavesSessions(got, Failure("Already using Gemini AI search"))
        ELSE IF sel.kind = "junk"
        THEN \* int(selection) raises ValueError
             LeavesSessions(got, Failure("Selection must be a number"))
        ELSE IF sel.kind = "null"
        THEN \* int(None) raises TypeError, caught by the handler's last except
             LeavesSessions(got, Failure("Server error"))
        ELSE IF 0 <= sel.idx - 1 /\ sel.idx - 1 < Len(got[sid].paper_options)
        THEN LeavesSessions(
                update_session(got, sid,
                    [awaiting_paper_selection |-> FALSE, paper_options |-> << >>]),
                [Response EXCEPT !.ok = TRUE, !.ret = << got[sid].paper_options[sel.idx] >>])
        ELSE LeavesSessions(got, Failure("Invalid selection index"))

\* A chat that gives up the query handle when rover.query raises
chat_dropping_handle(sid, answered) ==
    LET got == get_session(sessions, sid)
        asked == { "search_index", "synthesize" }
    IN  IF ~get_session_found(sessions, sid)
        THEN LeavesSessions(got, Failure("Invalid session"))
        ELSE IF ~got[sid].is_initialized \/ got[sid].rover_instance = {}
        THEN LeavesSessions(got, Failure("Not initialized"))
        ELSE IF answered
        THEN LeavesSessions(got, [Response EXCEPT !.ok = TRUE, !.calls = asked])
        ELSE LeavesSessions(
                update_session(got, sid, [rover_instance |-> {}, is_initialized |-> FALSE]),
                [Failure("Server error") EXCEPT !.calls = asked])

\* POST /api/chat.  answered: rover.query returned (it did not raise).
chat(sid, answered) ==
    LET got == get_session(sessions, sid)
        asked == { "search_index", "synthesize" }
    IN  IF ~get_session_found(sessions, sid)
        THEN LeavesSessions(got, Failure("Invalid session"))
        ELSE IF ~got[sid].is_initialized \/ got[sid].rover_instance = {}
        THEN LeavesSessions(got, Failure("Not initialized"))
        ELSE IF answered
        THEN LeavesSessions(got, [Response EXCEPT !.ok = TRUE, !.calls = asked])
        ELSE LeavesSessions(got, [Failure("Server error") EXCEPT !.calls = asked])

\* POST /api/reset
reset(sid) ==
    [LeavesSessions(create_session(delete_session(sessions, sid), nextSid),
                    [Response EXCEPT !.ok = TRUE, !.count = nextSid])
        EXCEPT !.nextSid = nextSid + 1]

----------------------------------------------------------------------------
(* Initialization *)

\* What the collaborators of one initialize call do:
\*   paper   PaperFinder.get_paper_by_id finds the paper
\*   repo    RepoFinder.find_with_fallback finds a repository
\*   clone   Repo.clone_from succeeds (asked only when the path is absent)
\*   files   the number of files index_repository stores
\*   map     the pipeline ends up with a concept map
\*   fail    the step that raises an exception, if any
\* A collaborator that is not reached has one fixed outcome.
Outcomes ==
    { o \in [ paper : BOOLEAN, repo : BOOLEAN, clone : BOOLEAN, files : 0..MaxFiles,
              map : BOOLEAN,
              fail : { "none", "components", "index", "pipeline", "save_map" } ] :
        /\ (~o.paper \/ ~o.repo \/ ~o.clone \/ o.fail \in { "components", "index" })
                => (o.files = 0 /\ ~o.map)
        /\ (~o.paper \/ ~o.repo \/ ~o.clone) => o.fail = "none"
        /\ ~o.paper => o.repo
        /\ (~o.paper \/ ~o.repo) => o.clone
        /\ o.fail = "pipeline" => ~o.map
        /\ o.fail = "save_map" => o.map }

\* RepoAnalyzer.clone_repository(url): the path returned (NoPath for None) ...
clone_repository(dirs, url, cloned) ==
    IF RepoPath(url) \in dirs \/ cloned THEN RepoPath(url) ELSE NoPath

\* ... and the directories afterwards (a partial clone is removed)
clone_repository_dirs(dirs, url, cloned) ==
    IF cloned THEN dirs \cup { RepoPath(url) } ELSE dirs

\* A collection that always reads as empty
collection_has_documents_never(ch, name) == FALSE

\* collection_manager.collection_has_documents
collection_has_documents(ch, name) == ch[name] > 0

\* RoverInstance(pipeline, paper_info, repo_path), the pipeline bound to the
\* collection set on the indexer
RoverInstance(id, path, collection) ==
    [ arxiv_id |-> id, repo_path |-> path, collection |-> collection ]

\* A session update that sets the flag and no handle
InitializedFlagOnly(store, sid, rover) ==
    update_session(store, sid, [is_initialized |-> TRUE])

\* The session update both init handlers make
Initialized(store, sid, rover) ==
    update_session(store, sid,
        [ rover_instance |-> { rover }, is_initialized |-> TRUE,
          initialization_error |-> {} ])

\* POST /api/init-paper, from the indexing step on (api_server.py 451-553).
\* got, c1, dirs: the session store, the cache and the directories so far;
\* path: repo_path (NoPath for None); url: repo_url; r: the response so far.
init_paper_index(sid, id, o, got, c1, dirs, path, url, r) ==
    LET had == collection_has_documents(chroma, id)
        rI == [r EXCEPT !.had_docs = had,
                        !.calls = IF had THEN @ ELSE @ \cup { "index" }]
        ch == IF had \/ path = NoPath \/ o.fail = "index" THEN chroma
              ELSE [chroma EXCEPT ![id] = o.files]
        has_map == IF r.from_cache /\ load_concept_map(conceptMaps, id) THEN TRUE
                   ELSE o.map
        s2 == Initialized(got, sid, RoverInstance(id, path, id))
        data == Entry(id, url, path, id, IF had THEN NoCount ELSE o.files,
                      IF has_map THEN Normalize(id) ELSE << >>)
    IN  IF ~had /\ (path = NoPath \/ o.fail = "index")
        THEN \* index_repository raised (None has no rglob)
             Leaves(got, c1, conceptMaps, dirs, chroma,
                    [rI EXCEPT !.error = "Server error"])
        ELSE IF path = NoPath \/ o.fail = "pipeline"
        THEN \* get_repo_structure(None), QueryPipeline or initialize raised
             Leaves(got, c1, conceptMaps, dirs, ch, [rI EXCEPT !.error = "Server error"])
        ELSE IF r.from_cache
        THEN [Leaves(s2, c1, conceptMaps, dirs, ch, [rI EXCEPT !.ok = TRUE])
                EXCEPT !.inits = { Normalize(id) }]
        ELSE IF has_map /\ o.fail = "save_map"
        THEN \* save_concept_map re-raises, after the session was updated
             Leaves(s2, c1, conceptMaps, dirs, ch, [rI EXCEPT !.error = "Server error"])
        ELSE [Leaves(s2, cache_set(c1, id, data),
                     IF has_map THEN save_concept_map(conceptMaps, id) ELSE conceptMaps,
                     dirs, ch, [rI EXCEPT !.ok = TRUE])
                EXCEPT !.inits = { Normalize(id) }]

\* POST /api/init-paper
init_paper(sid, id, o) ==
    LET got == get_session(sessions, sid)
        hit == cache_exists(cache, id)
        c1 == cache_get(cache, id)
        r == [Response EXCEPT !.from_cache = hit]
    IN  IF ~get_session_found(sessions, sid)
        THEN LeavesSessions(got, Failure("Invalid session"))
        ELSE IF o.fail = "components"
        THEN \* ChromaIndexer(...) or GeminiSynthesizer(...) raised
             Leaves(got, c1, conceptMaps, repoDirs, chroma,
                    [r EXCEPT !.error = "Server error"])
        ELSE IF hit
        THEN LET e == c1[Normalize(id)]
             IN  IF e.repo_path \in repoDirs
                 THEN init_paper_index(sid, id, o, got, c1, repoDirs,
                                       e.repo_path, e.repo_url, r)
                 ELSE LET path == clone_repository(repoDirs, e.repo_url, o.clone)
                          dirs == clone_repository_dirs(repoDirs, e.repo_url, o.clone)
                          c2 == IF path # NoPath
                                THEN cache_update(c1, id, [repo_path |-> path])
                                ELSE c1
                      IN  init_paper_index(sid, id, o, got, c2, dirs, path, e.repo_url,
                                           [r EXCEPT !.calls = { "clone" }])
        ELSE IF ~o.paper
        THEN Leaves(got, c1, conceptMaps, repoDirs, chroma,
                    [r EXCEPT !.error = "Paper not found", !.calls = { "lookup" }])
        ELSE IF ~o.repo
        THEN Leaves(got, c1, conceptMaps, repoDirs, chroma,
                    [r EXCEPT !.error = "Repository not found",
                              !.calls = { "lookup", "locate" }])
        ELSE LET url == RepoUrl(id)
                 asked == o.clone /\ RepoPath(url) \notin repoDirs
                 path == clone_repository(repoDirs, url, asked)
                 dirs == clone_repository_dirs(repoDirs, url, asked)
                 rM == [r EXCEPT !.calls = { "lookup", "locate", "clone" }]
             IN  IF path = NoPath
                 THEN Leaves(got, c1, conceptMaps, repoDirs, chroma,
                             [rM EXCEPT !.error = "Clone failed"])
                 ELSE init_paper_index(sid, id, o, got, c1, dirs, path, url, rM)

\* POST /api/init-showcase-paper.  outcome: the id is not in the showcase
\* metadata ("unlisted"), building the pipeline raises ("raised"), or "none".
init_showcase_paper(sid, id, outcome) ==
    LET got == get_session(sessions, sid)
        c1 == cache_get(cache, id)
        r == [Response EXCEPT !.from_cache = TRUE]
    IN  IF outcome = "unlisted"
        THEN LeavesSessions(sessions, Failure("Paper not found in showcase"))
        ELSE IF ~get_session_found(sessions, sid)
        THEN LeavesSessions(got, Failure("Invalid session"))
        ELSE IF ~cache_exists(cache, id)
        THEN LeavesSessions(got, Failure("Paper not indexed"))
        ELSE LET e == c1[Normalize(id)]
             IN  IF e.repo_path \notin repoDirs
                 THEN Leaves(got, c1, conceptMaps, repoDirs, chroma,
                             [r EXCEPT !.error = "Repository not found"])
                 ELSE IF outcome = "raised"
                 THEN Leaves(got, c1, conceptMaps, repoDirs, chroma,
                             [r EXCEPT !.error = "Server error"])
                 ELSE Leaves(Initialized(got, sid,
                                RoverInstance(id, e.repo_path, e.chroma_collection)),
                             c1, conceptMaps, repoDirs, chroma, [r EXCEPT !.ok = TRUE])

\* DELETE /api/cache/<arxiv_id>
clear_cache(id) ==
    IF ~cache_exists(cache, id)
    THEN LeavesSessions(sessions, Failure("Not found"))
    ELSE Leaves(sessions, cache_delete(cache, id), conceptMaps \ { id },
                repoDirs, chroma, [Response EXCEPT !.ok = TRUE])

\* DELETE /api/cache
clear_all_cache ==
    Leaves(sessions, clear_all, conceptMaps, repoDirs, chroma,
           [Response EXCEPT !.ok = TRUE])

----------------------------------------------------------------------------
(* The environment *)

\* d hours pass.
Tick(d) ==
    /\ now + d <= MaxTime
    /\ now' = now + d
    /\ UNCHANGED << sessions, nextSid, cache, disk, conceptMaps, repoDirs, chroma,
                    workers, initOk, hits, last, reply, lock >>

\* A cloned repository is removed from REPO_CLONE_DIR by hand ("external
\* invalidation").
RepoRemoved(path) ==
    /\ path \in repoDirs
    /\ repoDirs' = repoDirs \ { path }
    /\ last' = << >>
    /\ UNCHANGED << now, sessions, nextSid, cache, disk, conceptMaps, chroma,
                    workers, initOk, hits, reply, lock >>

----------------------------------------------------------------------------
(* The API server, one request at a time.  Between requests the clock jumps
   by an idle period longer than the session timeout: is_expired is the only
   comparison of two times the handlers make. *)

Init ==
    /\ now = 0
    /\ sessions = << >>
    /\ nextSid = 1
    /\ cache = << >>
    /\ disk = << >>
    /\ conceptMaps = {}
    /\ repoDirs = {}
    /\ chroma = [id \in PaperIds |-> 0]
    /\ workers = << >>
    /\ lock = 0
    /\ initOk = {}
    /\ hits = << >>
    /\ last = << >>
    /\ reply = NoReply

\* The access counters are capped so that the state space is finite.
CanGet(id) == cache_exists(cache, id) => cache[Normalize(id)].access_count < MaxAccess

Next ==
    \/ nextSid <= MaxSessions /\ Do(create_session_route)
    \/ Do(health)
    \/ \E sid \in SidPool, q \in Queries, found \in BOOLEAN, options \in ResultLists :
            /\ found => (_is_arxiv_id(q) /\ options = << >>)
            /\ Do(search_paper(sid, q, found, options))
    \/ \E sid \in SidPool, sel \in Selections : Do(select_paper(sid, sel))
    \/ \E sid \in SidPool, id \in PaperIds, o \in Outcomes :
            CanGet(id) /\ Do(init_paper(sid, id, o))
    \/ \E sid \in SidPool, id \in PaperIds, outcome \in { "none", "unlisted", "raised" } :
            CanGet(id) /\ Do(init_showcase_paper(sid, id, outcome))
    \/ \E sid \in SidPool, answered \in BOOLEAN : Do(chat(sid, answered))
    \/ \E sid \in SidPool : nextSid <= MaxSessions /\ Do(reset(sid))
    \/ \E id \in PaperIds : Do(clear_cache(id))
    \/ Do(clear_all_cache)
    \/ Tick(MaxAgeHours + 1)
    \/ \E path \in repoDirs : RepoRemoved(path)

Spec == Init /\ [][Next]_vars

----------------------------------------------------------------------------
(* Initialize requests alone, hour by hour, for what two calls in a row do *)

NextInit ==
    \/ nextSid <= MaxSessions /\ Do(create_session_route)
    \/ \E sid \in SidPool, id \in PaperIds, o \in Outcomes :
            CanGet(id) /\ DoInit(init_paper(sid, id, o), id)
    \/ \E id \in PaperIds : Do(clear_cache(id))
    \/ Do(clear_all_cache)
    \/ Tick(1)
    \/ \E path \in repoDirs : RepoRemoved(path)

SpecInit == Init /\ [][NextInit]_vars

----------------------------------------------------------------------------
(* agent.py: the same store and cache behind the agent's message handlers *)

\* msg.query.strip().replace('.', '').replace('v', '').isdigit()
IsDirectId(q) ==
    LET rest == SelectSeq(q, LAMBDA ch : ch # "v")
    IN  rest # << >> /\ AllDigits(rest, 1, Len(rest))

\* handle_search_paper: a new session for every search.  options: the list
\* PaperFinder.search_paper (or _search_online_with_gemini) returned.
handle_search_paper(query, options) ==
    LET sid == nextSid
        made == get_session(create_session(sessions, sid), sid)
    IN  [LeavesSessions(
            IF IsDirectId(query)
            THEN update_session(made, sid,
                    [awaiting_paper_selection |-> FALSE, paper_options |-> << >>])
            ELSE IF options = << >> THEN made
            ELSE update_session(made, sid,
                    [awaiting_paper_selection |-> TRUE, paper_options |-> options]),
            IF IsDirectId(query)
            THEN [Response EXCEPT !.ok = TRUE, !.ret = << query >>, !.count = sid]
            ELSE IF options = << >>
            THEN [Failure("No papers found") EXCEPT !.calls = { "search" }, !.count = sid]
            ELSE [Response EXCEPT !.ok = TRUE, !.ret = options, !.calls = { "search" },
                                  !.count = sid])
        EXCEPT !.nextSid = nextSid + 1]

\* handle_select_paper, for the integer msg.selection
handle_select_paper(sid, selection) ==
    LET got == get_session(sessions, sid)
    IN  IF ~get_session_found(sessions, sid)
        THEN LeavesSessions(got, Failure("Invalid or expired session"))
        ELSE IF ~got[sid].awaiting_paper_selection \/ got[sid].paper_options = << >>
        THEN LeavesSessions(got, Failure("No paper selection pending"))
        ELSE IF selection < 1 \/ selection > Len(got[sid].paper_options)
        THEN LeavesSessions(got, Failure("Invalid selection"))
        ELSE LeavesSessions(
                update_session(got, sid,
                    [awaiting_paper_selection |-> FALSE, paper_options |-> << >>]),
                [Response EXCEPT !.ok = TRUE, !.ret = << got[sid].paper_options[selection] >>])

\* handle_init_paper from step 5 on (agent.py 452-512): the pipeline is
\* built, then the session is updated.  c1, dirs, ch: the cache, the
\* directories and the collections so far.
handle_init_paper_pipeline(sid, id, o, got, c1, dirs, ch, path, collection, r) ==
    IF o.fail \in { "components", "pipeline" }
    THEN \* ChromaIndexer(), GeminiSynthesizer(), QueryPipeline() or
         \* pipeline.initialize raised
         Leaves(got, c1, conceptMaps, dirs, ch, [r EXCEPT !.error = "Error"])
    ELSE [Leaves(Initialized(got, sid, RoverInstance(id, path, collection)),
                 c1, conceptMaps, dirs, ch, [r EXCEPT !.ok = TRUE])
            EXCEPT !.inits = { Normalize(id) }]

\* handle_init_paper
handle_init_paper(sid, id, o) ==
    LET got == get_session(sessions, sid)
        hit == cache_exists(cache, id)
        c1 == cache_get(cache, id)
        r == [Response EXCEPT !.from_cache = hit]
    IN  IF ~get_session_found(sessions, sid)
        THEN LeavesSessions(got, Failure("Invalid or expired session"))
        ELSE IF hit
        THEN LET e == c1[Normalize(id)]
             IN  handle_init_paper_pipeline(sid, id, o, got, c1, repoDirs, chroma,
                                            e.repo_path, e.chroma_collection, r)
        ELSE IF ~o.paper
        THEN Leaves(got, c1, conceptMaps, repoDirs, chroma,
                    [r EXCEPT !.error = "Paper not found on ArXiv", !.calls = { "lookup" }])
        ELSE IF ~o.repo
        THEN Leaves(got, c1, conceptMaps, repoDirs, chroma,
                    [r EXCEPT !.error = "Could not find repository",
                              !.calls = { "lookup", "locate" }])
        ELSE LET url == RepoUrl(id)
                 asked == o.clone /\ RepoPath(url) \notin repoDirs
                 path == clone_repository(repoDirs, url, asked)
                 dirs == clone_repository_dirs(repoDirs, url, asked)
                 rM == [r EXCEPT !.calls = { "lookup", "locate", "clone" }]
                 rI == [rM EXCEPT !.calls = @ \cup { "index" },
                                  !.had_docs = collection_has_documents(chroma, id)]
                 \* collection.add never removes a document already stored
                 ch == [chroma EXCEPT ![id] = IF @ > o.files THEN @ ELSE o.files]
             IN  IF path = NoPath
                 THEN Leaves(got, c1, conceptMaps, repoDirs, chroma,
                             [rM EXCEPT !.error = "Failed to clone repository"])
                 ELSE IF o.fail \in { "components", "index" }
                 THEN \* ChromaIndexer() or index_repository raised
                      Leaves(got, c1, conceptMaps, dirs, chroma,
                             [rI EXCEPT !.error = "Error"])
                 ELSE handle_init_paper_pipeline(sid, id,
                        [o EXCEPT !.fail = IF @ = "save_map" THEN "none" ELSE @],
                        got, cache_set(c1, id, Entry(id, url, path, id, o.files, << >>)),
                        dirs, ch, path, id, rI)

\* handle_chat.  answered: rover.query returned (it did not raise).
handle_chat(sid, answered) ==
    LET got == get_session(sessions, sid)
        asked == { "search_index", "synthesize" }
    IN  IF ~get_session_found(sessions, sid)
        THEN LeavesSessions(got, Failure("Session expired or invalid"))
        ELSE IF ~got[sid].is_initialized \/ got[sid].rover_instance = {}
        THEN LeavesSessions(got, Failure("Paper not initialized"))
        ELSE IF answered
        THEN LeavesSessions(got, [Response EXCEPT !.ok = TRUE, !.calls = asked])
        ELSE LeavesSessions(got, [Failure("Error") EXCEPT !.calls = asked])

NextAgent ==
    \/ \E q \in Queries, options \in ResultLists :
            /\ nextSid <= MaxSessions
            /\ IsDirectId(q) => options = << >>
            /\ Do(handle_search_paper(q, options))
    \/ \E sid \in SidPool, selection \in 0..(MaxResults + 1) :
            Do(handle_select_paper(sid, selection))
    \/ \E sid \in SidPool, id \in PaperIds, o \in Outcomes :
            CanGet(id) /\ DoInit(handle_init_paper(sid, id, o), id)
    \/ \E sid \in SidPool, answered \in BOOLEAN : Do(handle_chat(sid, answered))
    \/ Tick(MaxAgeHours + 1)
    \/ \E path \in repoDirs : RepoRemoved(path)

SpecAgent == Init /\ [][NextAgent]_vars

----------------------------------------------------------------------------
(* PaperCache alone, called with identifiers as the client spells them *)

P2 == << "2" >>
P1v2v1 == << "1", "v", "2", "v", "1" >>

\* The identifiers the cache is called with
CacheIds == { P1, P1v2, P1v2v1, P2 }

\* The dict a caller hands to PaperCache.set for id
SetData(id) == Entry(id, RepoUrl(id), RepoPath(RepoUrl(id)), id, MaxFiles, << >>)

\* The updates a caller hands to PaperCache.update (init_paper: repo_path)
Updates == { [repo_path |-> RepoPath(RepoUrl(id))] : id \in { P1, P2 } }

\* One call of a PaperCache method, then _save_cache
CacheCall(c, m) ==
    /\ cache' = c
    /\ disk' = IF c = cache THEN disk ELSE _save_cache(c, TRUE)
    /\ conceptMaps' = m
    /\ UNCHANGED << now, sessions, nextSid, repoDirs, chroma, workers, initOk, hits,
                    last, reply, lock >>

NextCache ==
    \/ \E id \in CacheIds : CanGet(id) /\ CacheCall(cache_get(cache, id), conceptMaps)
    \/ \E id \in CacheIds : CacheCall(cache_set(cache, id, SetData(id)), conceptMaps)
    \/ \E id \in CacheIds, u \in Updates :
            CacheCall(cache_update(cache, id, u), conceptMaps)
    \/ \E id \in CacheIds : CacheCall(cache_delete(cache, id), conceptMaps)
    \/ CacheCall(clear_all, conceptMaps)
    \/ \E id \in CacheIds : CacheCall(cache, save_concept_map(conceptMaps, id))
    \/ Tick(1)

SpecCache == Init /\ [][NextCache]_vars

----------------------------------------------------------------------------
(* PaperCache.get run by concurrent request threads (Flask serves each
   request in a thread of its own; PaperCache holds no lock).  A worker is
   at one of the statements of get; a thread switch can fall between any
   two of them. *)

MaxWorkers == 2
Workers == 1..MaxWorkers

Idle == [ pc |-> "idle", key |-> << >>, read |-> 0 ]

WorkerStep(w, next, c, h) ==
    /\ workers' = [workers EXCEPT ![w] = next]
    /\ cache' = c
    /\ hits' = h
    /\ UNCHANGED << now, sessions, nextSid, disk, conceptMaps, repoDirs, chroma,
                    initOk, last, reply, lock >>

\* The worker threads start
WorkersStart ==
    /\ workers = << >>
    /\ workers' = [w \in Workers |-> Idle]
    /\ UNCHANGED << now, sessions, nextSid, cache, disk, conceptMaps, repoDirs,
                    chroma, initOk, hits, last, reply, lock >>

\* if normalized_id in self.cache:
GetCheck(w, id) ==
    /\ w \in DOMAIN workers /\ workers[w].pc = "idle"
    /\ cache_exists(cache, id) /\ CanGet(id)
    /\ WorkerStep(w, [Idle EXCEPT !.pc = "stamp", !.key = Normalize(id)], cache, hits)

\* self.cache[normalized_id]["last_accessed"] = now  (KeyError when the
\* entry was deleted meanwhile: the call ends)
GetStamp(w) ==
    /\ w \in DOMAIN workers /\ workers[w].pc = "stamp"
    /\ IF workers[w].key \in DOMAIN cache
       THEN WorkerStep(w, [workers[w] EXCEPT !.pc = "read"],
                       [cache EXCEPT ![workers[w].key].last_accessed = now], hits)
       ELSE WorkerStep(w, Idle, cache, hits)

\* self.cache[normalized_id].get("access_count", 0) + 1 is evaluated ...
GetRead(w) ==
    /\ w \in DOMAIN workers /\ workers[w].pc = "read"
    /\ IF workers[w].key \in DOMAIN cache
       THEN WorkerStep(w, [workers[w] EXCEPT !.pc = "write",
                                             !.read = cache[workers[w].key].access_count],
                       cache, hits)
       ELSE WorkerStep(w, Idle, cache, hits)

\* ... and stored: the hit is counted
GetWrite(w) ==
    /\ w \in DOMAIN workers /\ workers[w].pc = "write"
    /\ workers[w].read <= MaxAccess    \* the cap on the access counters
    /\ IF workers[w].key \in DOMAIN cache
       THEN WorkerStep(w, [workers[w] EXCEPT !.pc = "save"],
                       [cache EXCEPT ![workers[w].key].access_count = workers[w].read + 1],
                       [hits EXCEPT ![workers[w].key] = @ + 1])
       ELSE WorkerStep(w, Idle, cache, hits)

\* self._save_cache(); return self.cache[normalized_id]
GetSave(w) ==
    /\ w \in DOMAIN workers /\ workers[w].pc = "save"
    /\ workers' = [workers EXCEPT ![w] = Idle]
    /\ disk' = _save_cache(cache, TRUE)
    /\ UNCHANGED << now, sessions, nextSid, cache, conceptMaps, repoDirs, chroma,
                    initOk, hits, last, reply, lock >>

\* PaperCache.set by a request thread: the entry is replaced (its
\* access_count is 1 again), no hit has been served from the new entry
ConcSet(id) ==
    /\ workers # << >>
    /\ cache' = cache_set(cache, id, SetData(id))
    /\ disk' = _save_cache(cache', TRUE)
    /\ hits' = (Normalize(id) :> 0) @@ hits
    /\ UNCHANGED << now, sessions, nextSid, conceptMaps, repoDirs, chroma, workers,
                    initOk, last, reply, lock >>

\* PaperCache.delete by a request thread
ConcDelete(id) ==
    /\ workers # << >>
    /\ cache_exists(cache, id)
    /\ cache' = cache_delete(cache, id)
    /\ disk' = _save_cache(cache', TRUE)
    /\ hits' = Remove(hits, Normalize(id))
    /\ UNCHANGED << now, sessions, nextSid, conceptMaps, repoDirs, chroma, workers,
                    initOk, last, reply, lock >>

NextConc ==
    \/ WorkersStart
    \/ \E w \in Workers, id \in PaperIds : GetCheck(w, id)
    \/ \E w \in Workers : GetStamp(w)
    \/ \E w \in Workers : GetRead(w)
    \/ \E w \in Workers : GetWrite(w)
    \/ \E w \in Workers : GetSave(w)
    \/ \E id \in PaperIds : ConcSet(id)
    \/ \E id \in PaperIds : ConcDelete(id)
    \/ Tick(1)

SpecConc == Init /\ [][NextConc]_vars

----------------------------------------------------------------------------
(* PaperCache and papers.json, when writing the file can fail *)

\* One call of a PaperCache method: c is the dict afterwards, saves whether
\* the method reaches _save_cache, written whether open/json.dump succeed.
\* The method returns normally either way: _save_cache logs the exception.
DiskCall(c, saves, written) ==
    /\ cache' = c
    /\ disk' = IF saves THEN _save_cache(c, written) ELSE disk
    /\ UNCHANGED << now, sessions, nextSid, conceptMaps, repoDirs, chroma, workers,
                    initOk, hits, last, reply, lock >>

\* The process starts again: PaperCache.__init__ runs _load_cache
Restart ==
    /\ cache' = disk
    /\ UNCHANGED << now, sessions, nextSid, disk, conceptMaps, repoDirs, chroma,
                    workers, initOk, hits, last, reply, lock >>

DiskIds == PaperIds

NextDisk ==
    \/ \E id \in DiskIds, written \in BOOLEAN :
            CanGet(id) /\ DiskCall(cache_get(cache, id), cache_exists(cache, id), written)
    \/ \E id \in DiskIds, written \in BOOLEAN :
            DiskCall(cache_set(cache, id, SetData(id)), TRUE, written)
    \/ \E id \in DiskIds, u \in Updates, written \in BOOLEAN :
            DiskCall(cache_update(cache, id, u), cache_exists(cache, id), written)
    \/ \E id \in DiskIds, written \in BOOLEAN :
            DiskCall(cache_delete(cache, id), cache_exists(cache, id), written)
    \/ \E written \in BOOLEAN : DiskCall(clear_all, TRUE, written)
    \/ Restart
    \/ Tick(1)

SpecDisk == Init /\ [][NextDisk]_vars

----------------------------------------------------------------------------
(* Search and selection alone, with result lists longer than the three the
   search prompt asks for, and the response to each request recorded *)

MaxOptions == 4

\* "Find 3 relevant research papers": the number of options PaperFinder
\* promises ("max 3")
PromisedOptions == 3

\* The i-th paper the search can name: "1", "11", "111", ...
OptionId(i) == [j \in 1..i |-> "1"]

\* What _search_online_with_gemini may return: every entry of the model's
\* JSON array that has an arxiv.org url, in the order of the array.  The
\* lists tried are the first n papers in rising order and the last n in
\* falling order, for every n up to MaxOptions.
OptionLists ==
    { [i \in 1..n |-> OptionId(i)] : n \in 0..MaxOptions }
        \cup { [i \in 1..n |-> OptionId(MaxOptions + 1 - i)] : n \in 0..MaxOptions }

\* What a client sends as "selection", indices beyond the longest list included
\* and the JSON values true, false and null in place of a number or a string:
\* idx is what int(selection) gives (int(True) = 1, int(False) = 0)
WideSelections ==
    { [kind |-> k, idx |-> 0] : k \in { "cancel", "more", "junk", "null", "false" } }
        \cup { [kind |-> "true", idx |-> 1] }
        \cup { [kind |-> "index", idx |-> i] : i \in (0 - 1)..(MaxOptions + 1) }

NextSelect ==
    \/ nextSid <= MaxSessions /\ DoReply(create_session_route, "create", nextSid)
    \/ \E sid \in SidPool, q \in Queries, found \in BOOLEAN, options \in OptionLists :
            /\ found => (_is_arxiv_id(q) /\ options = << >>)
            /\ DoReply(search_paper(sid, q, found, options), "search", sid)
    \/ \E sid \in SidPool, sel \in WideSelections :
            DoReply(select_paper(sid, sel), sel.kind, sid)
    \/ \E sid \in SidPool : nextSid <= MaxSessions /\ DoReply(reset(sid), "reset", sid)
    \/ Tick(MaxAgeHours + 1)

SpecSelect == Init /\ [][NextSelect]_vars

-----------------------------------------------------------------------------
(* Chat requests among searches and initializations *)

NextChat ==
    \/ nextSid <= MaxSessions /\ DoReply(create_session_route, "create", nextSid)
    \/ \E sid \in SidPool, q \in Queries, found \in BOOLEAN, options \in ResultLists :
            /\ found => (_is_arxiv_id(q) /\ options = << >>)
            /\ DoReply(search_paper(sid, q, found, options), "search", sid)
    \/ \E sid \in SidPool, id \in PaperIds, o \in Outcomes :
            CanGet(id) /\ DoReply(init_paper(sid, id, o), "init", sid)
    \/ \E sid \in SidPool, answered \in BOOLEAN :
            DoReply(chat(sid, answered), "chat", sid)
    \/ Tick(MaxAgeHours + 1)

SpecChat == Init /\ [][NextChat]_vars

-----------------------------------------------------------------------------
(* The session store under request threads.  Every SessionManager method runs
   "with self.lock:"; a handler calls get_session, then reads the fields of
   the Session object it was given and calls its collaborators with no lock
   held, then calls update_session, whose body sets one attribute after the
   other.  A thread switch can fall between any two steps. *)

\* The lock after another method's "with" block is left ... never
UnlockNever(w) == w

\* Lock.release at the end of a "with self.lock:" block
Unlock(w) == 0

\* The calls to collaborators: search_paper_options; get_paper_by_id,
\* find_with_fallback, clone_repository, index_repository,
\* QueryPipeline.initialize; rover.query
ExternalCalls == { "search", "lookup", "locate", "clone", "index", "pipeline", "query" }

\* The statements a thread is at while it holds the lock
CriticalSections == { "create_in", "get_in", "upd_in" }

\* The option lists search_paper_options returns to the threads
ThreadOptions == { << >>, << OptionId(1) >> }

\* A thread between requests.  k: the selection (0 for "cancel"); kw: the
\* keyword arguments update_session has yet to set.
Thread == [ pc |-> "idle", op |-> "", sid |-> 0, k |-> 0, kw |-> << >> ]

ThreadStep(w, next, store, lk) ==
    /\ workers' = [workers EXCEPT ![w] = next]
    /\ sessions' = store
    /\ lock' = lk
    /\ UNCHANGED << now, nextSid, cache, disk, conceptMaps, repoDirs, chroma,
                    initOk, hits, last, reply >>

\* The handler returns a response it built itself
Finish(w, store, lk) == ThreadStep(w, Thread, store, lk)

\* An exception reaches the handler's outer "except Exception"
Raise(w) == ThreadStep(w, [workers[w] EXCEPT !.pc = "server_error"], sessions, lock)

ThreadsStart ==
    /\ workers = << >>
    /\ workers' = [w \in Workers |-> Thread]
    /\ UNCHANGED << now, sessions, nextSid, cache, disk, conceptMaps, repoDirs,
                    chroma, lock, initOk, hits, last, reply >>

At(w, pcs) == w \in DOMAIN workers /\ workers[w].pc \in pcs

\* A request arrives: POST /api/session, or a route that starts with
\* session_manager.get_session(session_id)
Begin(w, op, sid, k) ==
    /\ At(w, { "idle" })
    /\ op = "create" => nextSid <= MaxSessions
    /\ (op = "index") = (k > 0)
    /\ ThreadStep(w, [Thread EXCEPT !.pc = IF op = "create" THEN "create" ELSE "get",
                                    !.op = op, !.sid = sid, !.k = k],
                  sessions, lock)

\* Lock.acquire at the head of a "with self.lock:" block
Acquire(w) ==
    /\ At(w, { "create", "get", "upd" })
    /\ lock = 0
    /\ ThreadStep(w, [workers[w] EXCEPT !.pc =
                        CASE @ = "create" -> "create_in"
                          [] @ = "get" -> "get_in"
                          [] OTHER -> "upd_in"],
                  sessions, w)

\* The body of create_session, and create_session_route's return
CreateIn(w) ==
    /\ At(w, { "create_in" })
    /\ nextSid' = nextSid + 1
    /\ workers' = [workers EXCEPT ![w] = Thread]
    /\ sessions' = create_session(sessions, nextSid)
    /\ lock' = Unlock(w)
    /\ UNCHANGED << now, cache, disk, conceptMaps, repoDirs, chroma, initOk, hits, last,
                    reply >>

\* The statement a handler goes to when get_session gave it a session
AfterGet(op) ==
    CASE op = "search" -> "search"
      [] op = "init" -> "lookup"
      [] op = "chat" -> "flags"
      [] OTHER -> "r1"

\* The body of get_session; the handler returns "Invalid session" on None
GetIn(w) ==
    /\ At(w, { "get_in" })
    /\ IF get_session_found(sessions, workers[w].sid)
       THEN ThreadStep(w, [workers[w] EXCEPT !.pc = AfterGet(workers[w].op)],
                       get_session(sessions, workers[w].sid), Unlock(w))
       ELSE Finish(w, get_session(sessions, workers[w].sid), Unlock(w))

\* The keyword arguments of a handler's update_session call, in order
Kw(op, options) ==
    CASE op = "search" -> << << "awaiting_paper_selection", TRUE >>,
                             << "paper_options", options >> >>
      [] op = "init" -> << << "rover_instance",
                              { RoverInstance(P1, RepoPath(RepoUrl(P1)), P1) } >>,
                           << "is_initialized", TRUE >>,
                           << "initialization_error", {} >> >>
      [] OTHER -> << << "awaiting_paper_selection", FALSE >>,
                     << "paper_options", << >> >> >>

\* A call to a collaborator returns; the handler goes on to the next call or
\* to update_session (a search that finds nothing returns at once)
External(w) ==
    /\ At(w, ExternalCalls)
    /\ LET t == workers[w]
       IN  CASE t.pc = "search" ->
                    \E options \in ThreadOptions :
                        IF options = << >>
                        THEN Finish(w, sessions, lock)
                        ELSE ThreadStep(w, [t EXCEPT !.pc = "upd",
                                                     !.kw = Kw("search", options)],
                                        sessions, lock)
             [] t.pc = "lookup" -> ThreadStep(w, [t EXCEPT !.pc = "locate"], sessions, lock)
             [] t.pc = "locate" -> ThreadStep(w, [t EXCEPT !.pc = "clone"], sessions, lock)
             [] t.pc = "clone" -> ThreadStep(w, [t EXCEPT !.pc = "index"], sessions, lock)
             [] t.pc = "index" -> ThreadStep(w, [t EXCEPT !.pc = "pipeline"], sessions, lock)
             [] t.pc = "pipeline" ->
                    ThreadStep(w, [t EXCEPT !.pc = "upd", !.kw = Kw("init", << >>)],
                               sessions, lock)
             [] OTHER -> Finish(w, sessions, lock)

\* chat: if not session.is_initialized or not session.rover_instance
Flags(w) ==
    /\ At(w, { "flags" })
    /\ LET s == sessions[workers[w].sid]
       IN  IF ~s.is_initialized \/ s.rover_instance = {}
           THEN Finish(w, sessions, lock)
           ELSE ThreadStep(w, [workers[w] EXCEPT !.pc = "query"], sessions, lock)

\* select_paper: if not session.awaiting_paper_selection ...
R1(w) ==
    /\ At(w, { "r1" })
    /\ IF ~sessions[workers[w].sid].awaiting_paper_selection
       THEN Finish(w, sessions, lock)
       ELSE ThreadStep(w, [workers[w] EXCEPT !.pc = "r2"], sessions, lock)

\* ... or not session.paper_options; then the "cancel" branch
R2(w) ==
    /\ At(w, { "r2" })
    /\ LET t == workers[w]
       IN  IF sessions[t.sid].paper_options = << >>
           THEN Finish(w, sessions, lock)
           ELSE IF t.k = 0
           THEN ThreadStep(w, [t EXCEPT !.pc = "upd", !.kw = Kw("cancel", << >>)],
                           sessions, lock)
           ELSE ThreadStep(w, [t EXCEPT !.pc = "r3"], sessions, lock)

\* select_paper: if 0 <= idx < len(session.paper_options); len(None) raises
\* TypeError; an index out of range returns "Invalid selection index"
R3(w) ==
    /\ At(w, { "r3" })
    /\ LET t == workers[w]
           options == sessions[t.sid].paper_options
       IN  IF options = << >>
           THEN Raise(w)
           ELSE IF t.k <= Len(options)
           THEN ThreadStep(w, [t EXCEPT !.pc = "r4"], sessions, lock)
           ELSE Finish(w, sessions, lock)

\* select_paper: selected_paper = session.paper_options[idx]; subscripting
\* None raises TypeError, a shorter list IndexError
R4(w) ==
    /\ At(w, { "r4" })
    /\ LET t == workers[w]
           options == sessions[t.sid].paper_options
       IN  IF t.k > Len(options)
           THEN Raise(w)
           ELSE ThreadStep(w, [t EXCEPT !.pc = "upd", !.kw = Kw("index", << >>)],
                           sessions, lock)

\* The outer "except Exception" of a handler returns 500 "Server error"
ServerError(w) ==
    /\ At(w, { "server_error" })
    /\ Finish(w, sessions, lock)

\* update_session: one setattr of the loop over kwargs
UpdSet(w) ==
    /\ At(w, { "upd_in" })
    /\ workers[w].kw # << >>
    /\ LET t == workers[w]
           f == Head(t.kw)[1]
           v == Head(t.kw)[2]
       IN  ThreadStep(w, [t EXCEPT !.kw = Tail(@)],
                      IF t.sid \in DOMAIN sessions
                      THEN [sessions EXCEPT ![t.sid][f] = v]
                      ELSE sessions,
                      lock)

\* update_session: session.touch(), the lock is released, the handler returns
UpdEnd(w) ==
    /\ At(w, { "upd_in" })
    /\ workers[w].kw = << >>
    /\ LET t == workers[w]
       IN  Finish(w, IF t.sid \in DOMAIN sessions
                     THEN [sessions EXCEPT ![t.sid] = touch(@)]
                     ELSE sessions,
                  Unlock(w))

\* The steps of a thread that holds the lock
InLock(w) == CreateIn(w) \/ GetIn(w) \/ UpdSet(w) \/ UpdEnd(w)

ThreadOps == { "create", "search", "init", "chat", "cancel", "index" }

NextLock ==
    \/ ThreadsStart
    \/ \E w \in Workers, op \in ThreadOps, sid \in SidPool, k \in 0..1 : Begin(w, op, sid, k)
    \/ \E w \in Workers : Acquire(w)
    \/ \E w \in Workers : CreateIn(w)
    \/ \E w \in Workers : GetIn(w)
    \/ \E w \in Workers : External(w)
    \/ \E w \in Workers : Flags(w)
    \/ \E w \in Workers : R1(w)
    \/ \E w \in Workers : R2(w)
    \/ \E w \in Workers : R3(w)
    \/ \E w \in Workers : R4(w)
    \/ \E w \in Workers : ServerError(w)
    \/ \E w \in Workers : UpdSet(w)
    \/ \E w \in Workers : UpdEnd(w)

\* A thread that holds the lock is running: it is not waiting for anything
SpecLock == Init /\ [][NextLock]_vars /\ \A w \in Workers : WF_vars(InLock(w))

----------------------------------------------------------------------------
(* The states of a session, read off its flags *)

AwaitingSelection(s) == s.awaiting_paper_selection
IsInitialized(s) == s.is_initialized
Failed(s) == s.initialization_error # {}
Queryable(s) == s.is_initialized /\ s.rover_instance # {}

\* The failures of a sub-step of initialize, as init_paper reports them
StageFailures == { "Paper not found", "Repository not found", "Clone failed" }

----------------------------------------------------------------------------
(* Claims *)

\* C1: a cache entry exists only after an initialize of its paper has
\* returned success: an initialize that failed leaves no entry behind.
C1_EntryOnlyAfterSuccess == \A k \in DOMAIN cache : k \in initOk

C3_AwaitingIffOptions ==
    \A sid \in DOMAIN sessions :
        AwaitingSelection(sessions[sid]) <=> sessions[sid].paper_options # << >>

C3_Witness ==
    \E sid \in DOMAIN sessions :
        /\ AwaitingSelection(sessions[sid])
        /\ sessions[sid].paper_options # << >>
        /\ \E other \in DOMAIN sessions :
                other # sid /\ ~AwaitingSelection(sessions[other])

\* C4: a session holds a query handle iff it is Initialized.
C4_HandleIffInitialized ==
    \A sid \in DOMAIN sessions :
        sessions[sid].rover_instance # {} <=> IsInitialized(sessions[sid])

C4_Witness ==
    \E sid \in DOMAIN sessions :
        /\ IsInitialized(sessions[sid])
        /\ sessions[sid].rover_instance # {}
        /\ \E other \in DOMAIN sessions : ~IsInitialized(sessions[other])

\* C5: a session is in exactly one of Idle, AwaitingSelection, Initialized,
\* Failed: never awaiting a selection and Initialized at once.
C5_OneStateAtATime ==
    \A sid \in DOMAIN sessions :
        /\ ~(AwaitingSelection(sessions[sid]) /\ IsInitialized(sessions[sid]))
        /\ ~(AwaitingSelection(sessions[sid]) /\ Failed(sessions[sid]))
        /\ ~(IsInitialized(sessions[sid]) /\ Failed(sessions[sid]))

\* C6: an initialize that fails at a sub-step (paper, repository, clone)
\* reports that stage and leaves the session Failed and not queryable.
C6_FailureMakesSessionFailed ==
    \A sid \in SidPool, id \in PaperIds, o \in Outcomes :
        LET r == init_paper(sid, id, o)
        IN  (get_session_found(sessions, sid) /\ CanGet(id)
                /\ r.resp.error \in StageFailures) =>
                    /\ Failed(r.sessions[sid])
                    /\ ~Queryable(r.sessions[sid])

\* C7: an initialize on a session that is already Initialized is rejected or
\* deduplicated: it invokes neither the cloner nor the indexer.
C7_InitializedSessionNotReinitialized ==
    \A sid \in SidPool, id \in PaperIds, o \in Outcomes :
        (get_session_found(sessions, sid) /\ IsInitialized(sessions[sid]) /\ CanGet(id)) =>
            init_paper(sid, id, o).resp.calls \cap { "clone", "index" } = {}

\* C8: the mutations of the cache are serialized, so no update is lost: when
\* no get is in flight, the access count of an entry is 1 (from set) plus the
\* number of get hits counted on it.
C8_NoLostUpdate ==
    (workers # << >> /\ \A w \in Workers : workers[w].pc = "idle") =>
        \A k \in DOMAIN cache : cache[k].access_count = 1 + hits[k]

\* The identifiers X of the claim C9
Bases == CacheIds \cup { << "v" >>, << "1", "2" >> }

\* C9: for every identifier X and version digit n, X and X"v"n address the
\* same slot in get, set, update, delete, exists and the concept-map file;
\* after set on either form, get on the other form returns that entry; and
\* normalizing twice is normalizing once.
C9_VersionedIdSameSlot ==
    \A X \in Bases, n \in Digits :
        LET Xv == X \o << "v", n >>
        IN  /\ Normalize(Normalize(X)) = Normalize(X)
            /\ Normalize(Normalize(Xv)) = Normalize(Xv)
            /\ cache_exists(cache, Xv) = cache_exists(cache, X)
            /\ cache_get(cache, Xv) = cache_get(cache, X)
            /\ cache_set(cache, Xv, SetData(X)) = cache_set(cache, X, SetData(X))
            /\ cache_exists(cache_set(cache, X, SetData(X)), Xv)
            /\ cache_exists(cache_set(cache, Xv, SetData(Xv)), X)
            /\ cache_get(cache_set(cache, X, SetData(X)), Xv)[Normalize(Xv)].arxiv_id = X
            /\ cache_get(cache_set(cache, Xv, SetData(Xv)), X)[Normalize(X)].arxiv_id = Xv
            /\ \A u \in Updates : cache_update(cache, Xv, u) = cache_update(cache, X, u)
            /\ cache_delete(cache, Xv) = cache_delete(cache, X)
            /\ save_concept_map(conceptMaps, Xv) = save_concept_map(conceptMaps, X)
            /\ load_concept_map(conceptMaps, Xv) = load_concept_map(conceptMaps, X)

\* C9 witness: an entry stored under a versioned spelling has been read and
\* updated, and another stored under an unversioned spelling sits beside it.
C9_Witness ==
    \E k, j \in DOMAIN cache :
        /\ FirstV(cache[k].arxiv_id) # 0
        /\ cache[k].access_count >= 2
        /\ cache[k].last_accessed > cache[k].created_at
        /\ k # j
        /\ FirstV(cache[j].arxiv_id) = 0

\* C10: a session idle for longer than the timeout is not returned by get,
\* nor counted by the session count, although no sweep has run.
C10_ExpiredSessionInvisible ==
    /\ \A sid \in DOMAIN sessions :
            is_expired(sessions[sid]) =>
                /\ ~get_session_found(sessions, sid)
                /\ sid \notin DOMAIN get_session(sessions, sid)
    /\ health.resp.count =
            Cardinality({ sid \in DOMAIN sessions : ~is_expired(sessions[sid]) })

\* C11: whenever a mutating PaperCache method (get on a hit, set, update,
\* delete, clear_all) has returned normally, papers.json equals the dict in
\* memory; a failed write is not passed off as a success.
C11_PersistedEqualsMemory == disk = cache

\* A session as a handler leaves it when it does nothing but touch it
SameButAccess(s, t) == [s EXCEPT !.last_accessed = 0] = [t EXCEPT !.last_accessed = 0]

\* The numeric selections a client may send
NumericSelections == { sel \in WideSelections : sel.kind = "index" }

\* C12, in a state: select("cancel") on a session awaiting a selection
\* succeeds and leaves it not awaiting, with no pending options; and on a
\* session that is not awaiting a selection every numeric select is rejected
\* as not in selection mode and changes nothing.
C12_CancelClears ==
    \A sid \in SidPool :
        get_session_found(sessions, sid) =>
            /\ (AwaitingSelection(sessions[sid]) /\ sessions[sid].paper_options # << >>) =>
                    LET r == select_paper(sid, [kind |-> "cancel", idx |-> 0])
                    IN  /\ r.resp.ok
                        /\ ~AwaitingSelection(r.sessions[sid])
                        /\ r.sessions[sid].paper_options = << >>
            /\ ~AwaitingSelection(sessions[sid]) =>
                    \A sel \in NumericSelections :
                        LET r == select_paper(sid, sel)
                        IN  /\ ~r.resp.ok
                            /\ r.resp.error = "Not in paper selection mode"
                            /\ SameButAccess(r.sessions[sid], sessions[sid])

\* C12, in a step: a session that is not awaiting a selection starts
\* awaiting one only by a search on it.
C12_OnlySearchAwaits ==
    \A sid \in SidPool :
        (/\ sid \in DOMAIN sessions /\ sid \in DOMAIN sessions'
         /\ ~AwaitingSelection(sessions[sid])
         /\ AwaitingSelection(sessions'[sid]))
            => (reply'.op = "search" /\ reply'.sid = sid)

\* C12: select("cancel") on a session awaiting a selection returns it to
\* Idle with the pending options cleared, and every numeric select after it
\* and before a new search is rejected as not in selection mode.
C12_CancelThenSelectRejected == [](C12_CancelClears) /\ [][C12_OnlySearchAwaits]_vars

\* C12 witness: a numeric select has just been rejected as not in selection
\* mode, on a session left Idle (by a cancel) beside one still awaiting.
C12_Witness ==
    /\ reply.op = "index" /\ ~reply.ok /\ reply.error = "Not in paper selection mode"
    /\ reply.sid \in DOMAIN sessions
    /\ ~AwaitingSelection(sessions[reply.sid])
    /\ sessions[reply.sid].paper_options = << >>
    /\ \E other \in DOMAIN sessions : AwaitingSelection(sessions[other])

\* The selections the claim C13 wants rejected on a session with n pending
\* options: an index outside 1..n, or an input that is neither a number nor
\* a keyword (a string that is no number, true, false, null)
Rejectable(n) ==
    { sel \in WideSelections :
        \/ sel.kind = "index" /\ (sel.idx < 1 \/ sel.idx > n)
        \/ sel.kind \in { "junk", "null", "true", "false" } }

\* C13: on a session awaiting a selection, a select with an out-of-range
\* index or a non-numeric, non-keyword input is rejected and leaves the
\* selection state and the pending options exactly as they were.
C13_BadSelectRejected ==
    \A sid \in SidPool :
        (/\ get_session_found(sessions, sid)
         /\ AwaitingSelection(sessions[sid])
         /\ sessions[sid].paper_options # << >>) =>
            \A sel \in Rejectable(Len(sessions[sid].paper_options)) :
                LET r == select_paper(sid, sel)
                IN  /\ ~r.resp.ok
                    /\ SameButAccess(r.sessions[sid], sessions[sid])

\* C14: a search that finds options stores them in the order PaperLookup
\* returned them; on a session awaiting a selection among n options,
\* select(k) for every k in 1..n returns the k-th of them and leaves the
\* session Idle with the options cleared; and once a numeric select has
\* succeeded, every further numeric select is rejected.
C14_SelectReturnsKth ==
    \A sid \in SidPool :
        get_session_found(sessions, sid) =>
            /\ \A q \in Queries, options \in OptionLists \ { << >> } :
                    LET r == search_paper(sid, q, FALSE, options)
                    IN  /\ r.resp.ret = options
                        /\ r.sessions[sid].paper_options = options
                        /\ AwaitingSelection(r.sessions[sid])
            /\ AwaitingSelection(sessions[sid]) =>
                    \A k \in 1..Len(sessions[sid].paper_options) :
                        LET r == select_paper(sid, [kind |-> "index", idx |-> k])
                        IN  /\ r.resp.ok
                            /\ r.resp.ret = << sessions[sid].paper_options[k] >>
                            /\ ~AwaitingSelection(r.sessions[sid])
                            /\ r.sessions[sid].paper_options = << >>
            /\ (reply.op = "index" /\ reply.ok /\ reply.sid = sid) =>
                    /\ ~AwaitingSelection(sessions[sid])
                    /\ sessions[sid].paper_options = << >>
                    /\ \A sel \in NumericSelections : ~select_paper(sid, sel).resp.ok

\* C14 witness: the second paper has just been selected (second of a rising
\* list, or last but one of a falling list) and the session is Idle.
C14_Witness ==
    /\ reply.op = "index" /\ reply.ok
    /\ reply.ret = << OptionId(2) >>
    /\ reply.sid \in DOMAIN sessions
    /\ ~AwaitingSelection(sessions[reply.sid])
    /\ sessions[reply.sid].paper_options = << >>

\* C15: no session ever holds more than three pending options, whatever
\* list PaperLookup returned to the search that stored them.
C15_AtMostThreeOptions ==
    \A sid \in DOMAIN sessions :
        Len(sessions[sid].paper_options) <= PromisedOptions

\* C16: in every state of a live session, a search for which PaperLookup
\* yields no candidate tells the caller that nothing was found and leaves
\* the session Idle: not awaiting a selection and with no pending options.
C16_EmptySearchLeavesIdle ==
    \A sid \in SidPool, q \in Queries :
        get_session_found(sessions, sid) =>
            LET r == search_paper(sid, q, FALSE, << >>)
            IN  /\ ~r.resp.ok
                /\ r.resp.error = "No papers found"
                /\ ~AwaitingSelection(r.sessions[sid])
                /\ r.sessions[sid].paper_options = << >>

\* C17: in every state of a live session, a search whose query is a paper
\* identifier (with or without version suffix) and whose direct lookup
\* succeeds returns exactly one candidate, the paper asked for, without
\* running the options search, and leaves the session not awaiting a
\* selection and with no pending options, whatever it held before.
C17_DirectLookupBypassesSelection ==
    /\ \A sid \in SidPool, q \in PaperIds, options \in OptionLists :
            get_session_found(sessions, sid) =>
                LET r == search_paper(sid, q, TRUE, options)
                IN  /\ r.resp.ok
                    /\ r.resp.ret = << q >>
                    /\ r.resp.calls = { "lookup" }
                    /\ ~AwaitingSelection(r.sessions[sid])
                    /\ r.sessions[sid].paper_options = << >>
    /\ (reply.op = "search" /\ reply.ok /\ reply.calls = { "lookup" }
            /\ reply.sid \in DOMAIN sessions) =>
                /\ Len(reply.ret) = 1
                /\ ~AwaitingSelection(sessions[reply.sid])
                /\ sessions[reply.sid].paper_options = << >>

\* C17 witness: a versioned identifier has just been resolved directly.
C17_Witness ==
    /\ reply.op = "search" /\ reply.ok
    /\ reply.calls = { "lookup" }
    /\ reply.ret = << P1v2 >>
    /\ reply.sid \in DOMAIN sessions
    /\ ~AwaitingSelection(sessions[reply.sid])

\* C18: in every state, a chat on any session id, whether the answer comes,
\* the query raises or the request is rejected, leaves the selection flag,
\* the pending options and the query handle of every session as they were
\* (the only session it can remove is the one asked for, when that has
\* expired); and on a live session that is not initialized with a query
\* handle it answers "Not initialized" without invoking the index search or
\* the synthesizer.
C18_ChatChangesNothing ==
    /\ \A sid \in SidPool, answered \in BOOLEAN :
            LET r == chat(sid, answered)
            IN  /\ DOMAIN r.sessions \subseteq DOMAIN sessions
                /\ \A other \in DOMAIN sessions :
                        IF other \in DOMAIN r.sessions
                        THEN /\ r.sessions[other].awaiting_paper_selection
                                    = sessions[other].awaiting_paper_selection
                             /\ r.sessions[other].paper_options = sessions[other].paper_options
                             /\ r.sessions[other].rover_instance = sessions[other].rover_instance
                             /\ r.sessions[other].is_initialized = sessions[other].is_initialized
                        ELSE other = sid /\ is_expired(sessions[other])
                /\ (get_session_found(sessions, sid) /\ ~Queryable(sessions[sid])) =>
                        /\ ~r.resp.ok
                        /\ r.resp.error = "Not initialized"
                        /\ r.resp.calls = {}
                /\ ~get_session_found(sessions, sid) => r.resp.calls = {}
    /\ (reply.op = "chat" /\ reply.error = "Not initialized") => reply.calls = {}

\* C18 witness: a chat has just been answered on a session that holds a
\* query handle and, from a later search, pending options.
C18_Witness ==
    /\ reply.op = "chat" /\ reply.ok
    /\ reply.calls = { "search_index", "synthesize" }
    /\ reply.sid \in DOMAIN sessions
    /\ Queryable(sessions[reply.sid])
    /\ AwaitingSelection(sessions[reply.sid])
    /\ sessions[reply.sid].paper_options # << >>

\* C19: in every state, an initialize of a paper id (with or without
\* version suffix) that finds the paper's cache entry and succeeds attaches
\* to the session a query handle bound to the repository path and to the
\* index collection recorded in that entry.
C19_HitBindsHandleToEntry ==
    \A sid \in SidPool, id \in PaperIds, o \in Outcomes :
        (get_session_found(sessions, sid) /\ cache_exists(cache, id)) =>
            LET r == init_paper(sid, id, o)
                entry == r.cache[Normalize(id)]
            IN  r.resp.ok =>
                    \A rover \in r.sessions[sid].rover_instance :
                        /\ rover.repo_path = entry.repo_path
                        /\ rover.collection = entry.chroma_collection

\* C20: in every state, a cache-admin delete of a paper id (with or without
\* version suffix) that answers success leaves neither the cache entry nor
\* the concept map stored under the normalized id.
C20_DeleteRemovesEntryAndMap ==
    \A id \in PaperIds :
        LET r == clear_cache(id)
        IN  r.resp.ok =>
                /\ ~cache_exists(r.cache, id)
                /\ ~load_concept_map(r.conceptMaps, id)

\* C21: no thread holds the SessionManager lock while it is in a call to a
\* collaborator (paper lookup, repository discovery, clone, index, pipeline,
\* answer synthesis); whoever holds the lock is inside the body of a
\* SessionManager method; and the lock, once taken, is always released, so
\* that a method called for another session while an initialize is in
\* flight can go ahead.
C21_NoCollaboratorUnderLock ==
    \A w \in DOMAIN workers :
        /\ workers[w].pc \in ExternalCalls => lock # w
        /\ lock = w => workers[w].pc \in CriticalSections

C21_LockReleased == (lock # 0) ~> (lock = 0)

C21_LockNeverHeldAcrossCalls == [](C21_NoCollaboratorUnderLock) /\ C21_LockReleased

\* C21 witness: one thread is cloning for an initialize of session 1 while
\* another holds the lock inside update_session for session 2.
C21_Witness ==
    /\ workers # << >>
    /\ \E w, v \in Workers :
            /\ workers[w].pc = "clone" /\ workers[w].op = "init" /\ workers[w].sid = 1
            /\ workers[v].pc = "upd_in" /\ workers[v].sid = 2
            /\ lock = v

\* C26: a select or cancel handler that was given the session by get never
\* runs into an exception because of a concurrent update: requests on one
\* session each end in a candidate or a rejection, never in the handler's
\* "Server error".
C26_NoServerErrorFromRace ==
    \A w \in DOMAIN workers : workers[w].pc # "server_error"

\* C22: in every state, PaperCache.update on an id that has no entry
\* creates none, leaves the dict and the file as they were, and gives its
\* caller something other than what the same call gives when the entry
\* exists and the fields are merged.
C22_UpdateOfAbsentIsReported ==
    \A id \in CacheIds, u \in Updates :
        ~cache_exists(cache, id) =>
            /\ cache_update(cache, id, u) = cache
            /\ ~cache_exists(cache_update(cache, id, u), id)
            /\ cache_update_returns(cache, id, u)
                    # cache_update_returns(cache_set(cache, id, SetData(id)), id, u)

\* C23: in every state, an initialize that finds a cache entry whose stored
\* repository path is gone calls no collaborator but the cloner (not the
\* paper lookup, not the repository locator, not the indexer), and leaves
\* the entry's title, repository URL, collection, index time and creation
\* time as they were stored.
C23_RepairClonesOnly ==
    \A sid \in SidPool, id \in PaperIds, o \in Outcomes :
        (/\ get_session_found(sessions, sid)
         /\ cache_exists(cache, id)
         /\ cache[Normalize(id)].repo_path \notin repoDirs) =>
            LET r == init_paper(sid, id, o)
                before == cache[Normalize(id)]
            IN  /\ r.resp.calls \subseteq { "clone" }
                /\ cache_exists(r.cache, id)
                /\ \A f \in { "title", "repo_url", "chroma_collection",
                              "chroma_indexed_at", "created_at" } :
                        r.cache[Normalize(id)][f] = before[f]

\* C24: in every state, an initialize, on the HTTP route and on the agent
\* alike, invokes the indexer only when the target collection has no
\* indexed content; a collection that has content is reused as it is.
C24_IndexOnlyEmptyCollection ==
    \A sid \in SidPool, id \in PaperIds, o \in Outcomes :
        /\ LET r == init_paper(sid, id, o)
           IN  /\ "index" \in r.resp.calls => ~collection_has_documents(chroma, id)
               /\ collection_has_documents(chroma, id) => r.chroma = chroma
        /\ LET r == handle_init_paper(sid, id, o)
           IN  /\ "index" \in r.resp.calls => ~collection_has_documents(chroma, id)
               /\ collection_has_documents(chroma, id) => r.chroma = chroma

\* The cache with the access statistics of get left out of every entry
Recorded(c) ==
    [k \in DOMAIN c |-> [c[k] EXCEPT !.last_accessed = NoTime, !.access_count = 0]]

\* C25: in every state, an initialize whose clone fails, on the fresh path
\* (no cache entry, paper and repository found) and on the repair of a cache
\* entry whose repository path is gone alike, answers "Clone failed",
\* attaches no query handle to the session and leaves what the cache
\* records as it was.
C25_CloneFailureIsTyped ==
    \A sid \in SidPool, id \in PaperIds, o \in Outcomes :
        LET hit == cache_exists(cache, id)
            fresh == ~hit /\ o.paper /\ o.repo /\ RepoPath(RepoUrl(id)) \notin repoDirs
            repair == hit /\ cache[Normalize(id)].repo_path \notin repoDirs
            r == init_paper(sid, id, o)
        IN  (get_session_found(sessions, sid) /\ ~o.clone /\ (fresh \/ repair)) =>
                /\ ~r.resp.ok
                /\ r.resp.error = "Clone failed"
                /\ r.sessions[sid].rover_instance = sessions[sid].rover_instance
                /\ r.sessions[sid].is_initialized = sessions[sid].is_initialized
                /\ Recorded(r.cache) = Recorded(cache)

\* The identifiers a client may send, letter by letter: a digit, "v", or
\* any other character (as in "arxiv.org/abs/..."), up to MaxIdLen long
MaxIdLen == 3
IdForms == UNION { [1..n -> { "1", "v", "/" }] : n \in 1..MaxIdLen }

\* The trailing version marker of the identifier pattern, (v\d+)?$ : the
\* index of its "v", 0 when the identifier does not end in "v" and digits
VersionMarker(id) ==
    IF \E i \in 1..(Len(id) - 1) : id[i] = "v" /\ AllDigits(id, i + 1, Len(id))
    THEN CHOOSE i \in 1..(Len(id) - 1) : id[i] = "v" /\ AllDigits(id, i + 1, Len(id))
    ELSE 0

\* The identifier with its trailing version marker taken off
WithoutVersionMarker(id) ==
    IF VersionMarker(id) = 0 THEN id ELSE SubSeq(id, 1, VersionMarker(id) - 1)

\* C27: an identifier that does not end in a version marker is stored under
\* itself, and a set under one identifier is found under another only when
\* the two are equal once their trailing version markers are taken off.
C27_OnlyTrailingMarkerStripped ==
    \A a \in IdForms :
        /\ VersionMarker(a) = 0 => a \in DOMAIN cache_set(cache, a, SetData(a))
        /\ \A b \in IdForms :
                (Normalize(a) \notin DOMAIN cache
                    /\ cache_exists(cache_set(cache, a, SetData(a)), b))
                        => WithoutVersionMarker(a) = WithoutVersionMarker(b)

\* C28: in every state, an update_session on the id of a session whose idle
\* time exceeds the timeout does not make that session reachable through
\* get_session again.
C28_UpdateDoesNotRevive ==
    \A sid \in DOMAIN sessions, flag \in BOOLEAN :
        is_expired(sessions[sid]) =>
            ~get_session_found(
                update_session(sessions, sid, [awaiting_paper_selection |-> flag]), sid)

\* C29: in every state, an initialize that answers a failure has attached
\* no query handle to the session and has not marked it initialized (both
\* are as before the call), and one that answers success without a cache
\* hit has written the cache entry.
C29_InitializeAllOrNothing ==
    \A sid \in SidPool, id \in PaperIds, o \in Outcomes :
        get_session_found(sessions, sid) =>
            LET r == init_paper(sid, id, o)
            IN  /\ ~r.resp.ok =>
                        /\ r.sessions[sid].rover_instance = sessions[sid].rover_instance
                        /\ r.sessions[sid].is_initialized = sessions[sid].is_initialized
                /\ (r.resp.ok /\ ~r.resp.from_cache) => cache_exists(r.cache, id)

\* C30: after any sequence of set, update and get calls every entry of the
\* cache carries a creation time, and a set on an identifier that has an
\* entry leaves that entry's creation time as it was.
C30_CreatedAtKept ==
    /\ \A k \in DOMAIN cache : cache[k].created_at # NoTime
    /\ \A id \in CacheIds :
            cache_exists(cache, id) =>
                cache_set(cache, id, SetData(id))[Normalize(id)].created_at
                    = cache[Normalize(id)].created_at

====
